---- MODULE Spec2Model ----
(***************************************************************************)
(* QuantumWalk: the deterministic hash-chain step generator                *)
(* (stepCalculator, durationConverter, hasher), the in-memory step cache   *)
(* (StepCache), the similarity scorer (similarityScore) and the sequence   *)
(* matcher (sequenceMatcher).                                              *)
(*                                                                         *)
(* A digest is modelled by its leading 64 bits, the only part               *)
(* hashToDuration reads, kept at full width as four 16-bit limbs            *)
(* <<most significant, .., least significant>>.  A QuantumStep is the       *)
(* record [index, timestamp, interval, hash]; isoString is a function of    *)
(* timestamp alone and is left out.                                         *)
(***************************************************************************)
EXTENDS Integers, Sequences, FiniteSets, TLC

(***************************************************************************)
(* Bounds of the model.                                                    *)
(***************************************************************************)
\* config.maxInterval ranges over 1..MaxM
MaxM == 4
\* count of calculateStepsForward ranges over 0..MaxCount
MaxCount == 2
\* target / range timestamps range over 0..MaxTarget
MaxTarget == 3
\* caller-supplied start steps have timestamp 0..MaxStartTs
MaxStartTs == 1
\* stands for the 1,000,000 iteration ceiling of calculateStepsUntil
StepLimit == 2
\* the unbounded walks (findStepNearTimestamp, calculateStepsInRange) are
\* followed for this many iterations
MaxWalk == 4
\* maxSize of a StepCache ranges over 0..MaxCacheSize
MaxCacheSize == 2
\* a StepCache is followed for this many set calls
MaxSets == 4
\* the interval sequences given to the scorer have at most this many elements
MaxLen == 3
\* stands for the 10,000 steps of the default window of matchSequence
MatchCount == 4
\* the target steps given to getPreviousSteps have index 0..MaxIndex
MaxIndex == 3

Limb == 65536
LimbMax == 65535

Max(a, b) == IF a >= b THEN a ELSE b
Abs(a) == IF a >= 0 THEN a ELSE 0 - a

(***************************************************************************)
(* Digests (leading 64 bits)                                               *)
(***************************************************************************)
ZeroDigest == <<0, 0, 0, 0>>
HalfDigest == <<32768, 0, 0, 0>>
AlmostOnesDigest == <<LimbMax, LimbMax, LimbMax, 65534>>
OnesDigest == <<LimbMax, LimbMax, LimbMax, LimbMax>>

\* limb values the pure-function check of hashToDuration draws from
LimbValues == {0, 32768, 65534, LimbMax}
AllDigests == {<<a, b, c, d>> : a \in LimbValues, b \in LimbValues,
                                c \in LimbValues, d \in LimbValues}

\* digests the hasher returns along the chains of the generator model
ChainDigests == {ZeroDigest, HalfDigest, AlmostOnesDigest, OnesDigest}

(***************************************************************************)
(* durationConverter.hashToDuration                                        *)
(*   hashValue * BigInt(maxInterval) / maxUint64, maxUint64 = 2^64 - 1.     *)
(* The product is formed limb by limb: x = q * 2^64 + R with R the low 64   *)
(* bits <<r3, r2, r1, r0>> and q < maxInterval the part above them.  Since  *)
(* x = q * (2^64 - 1) + (q + R) and q + R < 2 * (2^64 - 1), the BigInt      *)
(* quotient is q, plus one exactly when q + R >= 2^64 - 1.  Number() and    *)
(* Math.floor are exact on the result (below 2^53).                         *)
(***************************************************************************)
\* hashToDuration rounding up: one more than the floor of the quotient
hashToDurationRoundUp(hash, maxInterval) ==
    LET p0 == hash[4] * maxInterval
        p1 == hash[3] * maxInterval + (p0 \div Limb)
        p2 == hash[2] * maxInterval + (p1 \div Limb)
        p3 == hash[1] * maxInterval + (p2 \div Limb)
        carry == IF /\ p3 % Limb = LimbMax /\ p2 % Limb = LimbMax
                    /\ p1 % Limb = LimbMax
                    /\ LimbMax - (p0 % Limb) <= p3 \div Limb
                 THEN 1 ELSE 0
    IN  (p3 \div Limb) + carry + 1

hashToDuration(hash, maxInterval) ==
    LET p0 == hash[4] * maxInterval
        p1 == hash[3] * maxInterval + (p0 \div Limb)
        p2 == hash[2] * maxInterval + (p1 \div Limb)
        p3 == hash[1] * maxInterval + (p2 \div Limb)
        r0 == p0 % Limb
        r1 == p1 % Limb
        r2 == p2 % Limb
        r3 == p3 % Limb
        q  == p3 \div Limb
        carry == IF /\ r3 = LimbMax /\ r2 = LimbMax /\ r1 = LimbMax
                    /\ LimbMax - r0 <= q
                 THEN 1 ELSE 0
    IN  q + carry

(***************************************************************************)
(* State                                                                   *)
(***************************************************************************)
VARIABLES
    dHash,       \* hashToDuration check: the digest argument
    dMax,        \* hashToDuration check: the maxInterval argument
    dOut,        \* hashToDuration check: the value returned, -1 before the call
    digestOf,    \* SHA-256 as the generator sees it: timestamp -> digest
    configs,     \* the QuantumConfig values callers pass
    counts,      \* the count values callers pass
    starts,      \* the steps callers hold and pass as currentStep / startStep
    runs,        \* the identities of the asynchronous callers
    run,         \* per caller: the async operation in flight and its locals
    cache,       \* StepCache.cache: the entries in the order of the Map
    checkpoints, \* StepCache.checkpoints: the steps stored, one per index
    maxSize,     \* StepCache.maxSize
    tick,        \* the number of set calls so far; stands for Date.now()
    lastOp,      \* the last StepCache call, its argument and what it returned
    match        \* the call of the scorer or matcher: its arguments and result

durVars == <<dHash, dMax, dOut>>
cacheVars == <<cache, checkpoints, maxSize, tick, lastOp>>
inputVars == <<configs, counts, starts>>
vars == <<dHash, dMax, dOut, digestOf, configs, counts, starts, runs, run,
          cache, checkpoints, maxSize, tick, lastOp, match>>

\* largest timestamp any modelled operation hashes
MaxTs == Max(Max(MaxStartTs + (MaxCount - 1) * MaxM, MaxTarget),
             (MatchCount - 1) * MaxM)
Timestamps == 0 .. MaxTs

NoStep == [index |-> -1, timestamp |-> -1, interval |-> -1, hash |-> <<>>]

Configs == [maxInterval : 1 .. MaxM, startTimestamp : 0 .. MaxStartTs]

\* steps a caller may hold and pass as currentStep / startStep: one per
\* timestamp, and a second one of other index, interval and hash at the last
ArbSteps ==
    {[index |-> 0, timestamp |-> t, interval |-> 0, hash |-> ZeroDigest] :
        t \in 0 .. MaxStartTs}
    \cup {[index |-> 7, timestamp |-> MaxStartTs, interval |-> 1,
           hash |-> OnesDigest]}

HashErrors == {"HashUnavailable", "HashFailure"}

\* digestOf[t] before timestamp t has been hashed
Unhashed == <<>>

IdleRun ==
    [op |-> "none", status |-> "idle", pc |-> "-", error |-> "none",
     config |-> [maxInterval |-> 1, startTimestamp |-> 0],
     start |-> NoStep, fromInit |-> FALSE, count |-> 0,
     target |-> 0, endTs |-> 0, i |-> 0,
     origin |-> NoStep, current |-> NoStep, steps |-> <<>>,
     retStep |-> NoStep, retSteps |-> <<>>,
     calls |-> 0, lastCur |-> NoStep, lastNext |-> NoStep]

(***************************************************************************)
(* hasher.hashTimestamp: the digest of the timestamp, or one of its two    *)
(* errors (crypto.subtle missing; digest() rejecting).                     *)
(***************************************************************************)
\* a hasher whose digest is not a function of the timestamp
hashTimestampUnstable(timestamp) ==
    {[ok |-> TRUE, hash |-> h, error |-> "none"] : h \in ChainDigests}
        \cup {[ok |-> FALSE, hash |-> <<>>, error |-> e] : e \in HashErrors}

hashTimestamp(timestamp) ==
    {[ok |-> TRUE, hash |-> h, error |-> "none"] :
        h \in (IF digestOf[timestamp] = Unhashed
               THEN ChainDigests ELSE {digestOf[timestamp]})}
        \cup {[ok |-> FALSE, hash |-> <<>>, error |-> e] : e \in HashErrors}

\* SHA-256 is a function: a digest once returned for a timestamp is the
\* digest of that timestamp from then on
Hashed(timestamp, out) ==
    IF out.ok THEN [digestOf EXCEPT ![timestamp] = out.hash] ELSE digestOf

\* calls counts the hashTimestamp calls of the operations that make a
\* bounded number of them (getInitialStep, calculateNextStep,
\* calculateStepsForward)
Counted(rec) ==
    IF rec.op \in {"initial", "next", "forward"}
    THEN [rec EXCEPT !.calls = rec.calls + 1] ELSE rec

Fail(rec, err) == [Counted(rec) EXCEPT !.status = "failed", !.error = err]

(***************************************************************************)
(* stepCalculator.getInitialStep / calculateNextStep: the part after the   *)
(* awaited hash has arrived.                                               *)
(***************************************************************************)
getInitialStep(hash) ==
    [index |-> 0, timestamp |-> 0, interval |-> 0, hash |-> hash]

\* calculateNextStep advancing by the interval of the current step
calculateNextStepStale(currentStep, config, hash) ==
    LET interval == hashToDuration(hash, config.maxInterval)
        nextTimestamp == currentStep.timestamp + currentStep.interval
    IN  [index |-> currentStep.index + 1, timestamp |-> nextTimestamp,
         interval |-> interval, hash |-> hash]

calculateNextStep(currentStep, config, hash) ==
    LET interval == hashToDuration(hash, config.maxInterval)
        nextTimestamp == currentStep.timestamp + interval
    IN  [index |-> currentStep.index + 1, timestamp |-> nextTimestamp,
         interval |-> interval, hash |-> hash]

\* the record of a run after one calculateNextStep(cur) has produced nxt
Stepped(rec, cur, nxt) ==
    [Counted(rec) EXCEPT !.lastCur = cur, !.lastNext = nxt]

\* steps a caller can pass: an arbitrary step it holds, or the origin it
\* has just obtained from getInitialStep
StartSteps(r) ==
    starts \cup (IF run[r].op = "initial" /\ run[r].status = "returned"
                   THEN {run[r].retStep} ELSE {})

\* a caller starts an operation when it is idle or holds the origin
CanCall(r) ==
    /\ r \in runs
    /\ \/ run[r].status = "idle"
       \/ run[r].op = "initial" /\ run[r].status = "returned"

(***************************************************************************)
(* getInitialStep()                                                        *)
(***************************************************************************)
CallGetInitialStep(r) ==
    /\ CanCall(r)
    /\ run' = [run EXCEPT ![r] =
                 [IdleRun EXCEPT !.op = "initial", !.status = "running",
                                 !.pc = "init"]]
    /\ UNCHANGED <<durVars, match, cacheVars, digestOf, inputVars, runs>>

GetInitialStepResume(r) ==
    /\ r \in runs
    /\ run[r].op = "initial" /\ run[r].status = "running"
    /\ \E out \in hashTimestamp(0) :
         /\ digestOf' = Hashed(0, out)
         /\ run' = [run EXCEPT ![r] =
                      IF ~out.ok THEN Fail(@, out.error)
                      ELSE [Counted(@) EXCEPT !.status = "returned",
                                     !.origin = getInitialStep(out.hash),
                                     !.retStep = getInitialStep(out.hash)]]
    /\ UNCHANGED <<durVars, match, cacheVars, inputVars, runs>>

(***************************************************************************)
(* calculateNextStep(currentStep, config)                                  *)
(***************************************************************************)
CallCalculateNextStep(r) ==
    /\ CanCall(r)
    /\ \E cur \in StartSteps(r), cfg \in configs :
         run' = [run EXCEPT ![r] =
                   [IdleRun EXCEPT !.op = "next", !.status = "running",
                                   !.pc = "loop", !.config = cfg,
                                   !.start = cur, !.current = cur]]
    /\ UNCHANGED <<durVars, match, cacheVars, digestOf, inputVars, runs>>

CalculateNextStepResume(r) ==
    /\ r \in runs
    /\ run[r].op = "next" /\ run[r].status = "running"
    /\ run[r].current.timestamp \in Timestamps
    /\ \E out \in hashTimestamp(run[r].current.timestamp) :
         /\ digestOf' = Hashed(run[r].current.timestamp, out)
         /\ run' = [run EXCEPT ![r] =
                      IF ~out.ok THEN Fail(@, out.error)
                      ELSE LET nxt == calculateNextStep(@.current, @.config, out.hash)
                           IN  [Stepped(@, @.current, nxt) EXCEPT
                                   !.status = "returned", !.retStep = nxt]]
    /\ UNCHANGED <<durVars, match, cacheVars, inputVars, runs>>

(***************************************************************************)
(* calculateStepsForward(startStep, count, config)                         *)
(***************************************************************************)
\* the loop test as  i <= count
ForwardContinuesLe(i, count) == i <= count

\* the loop test  i < count
ForwardContinues(i, count) == i < count

CallCalculateStepsForward(r) ==
    /\ CanCall(r)
    /\ \E startStep \in StartSteps(r), count \in counts, cfg \in configs :
         run' = [run EXCEPT ![r] =
                   [IdleRun EXCEPT
                      !.op = "forward", !.pc = "loop", !.config = cfg,
                      !.start = startStep, !.current = startStep,
                      !.fromInit = (startStep \notin starts),
                      !.count = count,
                      !.status = IF ForwardContinues(0, count)
                                 THEN "running" ELSE "returned"]]
    /\ UNCHANGED <<durVars, match, cacheVars, digestOf, inputVars, runs>>

StepsForwardResume(r) ==
    /\ r \in runs
    /\ run[r].op = "forward" /\ run[r].status = "running"
    /\ run[r].current.timestamp \in Timestamps
    /\ \E out \in hashTimestamp(run[r].current.timestamp) :
         /\ digestOf' = Hashed(run[r].current.timestamp, out)
         /\ run' = [run EXCEPT ![r] =
                      IF ~out.ok THEN Fail(@, out.error)
                      ELSE LET nxt == calculateNextStep(@.current, @.config, out.hash)
                               steps == Append(@.steps, nxt)
                           IN  IF ForwardContinues(Len(steps), @.count)
                               THEN [Stepped(@, @.current, nxt) EXCEPT
                                       !.current = nxt, !.steps = steps]
                               ELSE [Stepped(@, @.current, nxt) EXCEPT
                                       !.current = nxt, !.steps = steps,
                                       !.status = "returned", !.retSteps = steps]]
    /\ UNCHANGED <<durVars, match, cacheVars, inputVars, runs>>

(***************************************************************************)
(* calculateStepsUntil(startStep, targetTimestamp, config)                 *)
(***************************************************************************)
\* the safety check as  steps.length >= 1000000
LimitExceededGe(steps) == Len(steps) >= StepLimit

\* the safety check  steps.length > 1000000
LimitExceeded(steps) == Len(steps) > StepLimit

CallCalculateStepsUntil(r) ==
    /\ CanCall(r)
    /\ \E startStep \in StartSteps(r), targetTimestamp \in 0 .. MaxTarget,
          cfg \in configs :
         run' = [run EXCEPT ![r] =
                   [IdleRun EXCEPT
                      !.op = "until", !.pc = "loop", !.config = cfg,
                      !.start = startStep, !.current = startStep,
                      !.target = targetTimestamp,
                      !.status = IF startStep.timestamp < targetTimestamp
                                 THEN "running" ELSE "returned"]]
    /\ UNCHANGED <<durVars, match, cacheVars, digestOf, inputVars, runs>>

StepsUntilResume(r) ==
    /\ r \in runs
    /\ run[r].op = "until" /\ run[r].status = "running"
    /\ run[r].current.timestamp \in Timestamps
    /\ \E out \in hashTimestamp(run[r].current.timestamp) :
         /\ digestOf' = Hashed(run[r].current.timestamp, out)
         /\ run' = [run EXCEPT ![r] =
                      IF ~out.ok THEN Fail(@, out.error)
                      ELSE LET nxt == calculateNextStep(@.current, @.config, out.hash)
                               steps == Append(@.steps, nxt)
                               rec == [Stepped(@, @.current, nxt) EXCEPT
                                         !.current = nxt, !.steps = steps]
                           IN  IF LimitExceeded(steps)
                               THEN [rec EXCEPT !.status = "failed",
                                                !.error = "StepLimit"]
                               ELSE IF nxt.timestamp < @.target
                               THEN rec
                               ELSE [rec EXCEPT !.status = "returned",
                                                !.retSteps = steps]]
    /\ UNCHANGED <<durVars, match, cacheVars, inputVars, runs>>

(***************************************************************************)
(* findStepNearTimestamp(targetTimestamp, config), also as the first part  *)
(* of calculateStepsInRange (pc "init" and "find").                        *)
(***************************************************************************)
\* the overshoot branch comparing with <=
CloserLe(current, nxt, targetTimestamp) ==
    LET currentDiff == Abs(targetTimestamp - current.timestamp)
        nextDiff == Abs(targetTimestamp - nxt.timestamp)
    IN  IF currentDiff <= nextDiff THEN current ELSE nxt

\* the step the overshoot branch returns
Closer(current, nxt, targetTimestamp) ==
    LET currentDiff == Abs(targetTimestamp - current.timestamp)
        nextDiff == Abs(targetTimestamp - nxt.timestamp)
    IN  IF currentDiff < nextDiff THEN current ELSE nxt

\* findStepNearTimestamp returns step: to the caller, or into the body of
\* calculateStepsInRange, which runs on to its first await
FindReturn(rec, step) ==
    IF rec.op = "nearest"
    THEN [rec EXCEPT !.status = "returned", !.retStep = step, !.current = step]
    ELSE IF step.timestamp < rec.endTs
         THEN [rec EXCEPT !.pc = "loop", !.current = step, !.steps = <<step>>]
         ELSE [rec EXCEPT !.status = "returned", !.current = step,
                          !.steps = <<step>>, !.retSteps = <<step>>]

CallFindStepNearTimestamp(r) ==
    /\ CanCall(r)
    /\ \E targetTimestamp \in 0 .. MaxTarget, cfg \in configs :
         run' = [run EXCEPT ![r] =
                   [IdleRun EXCEPT !.op = "nearest", !.status = "running",
                                   !.pc = "init", !.config = cfg,
                                   !.target = targetTimestamp]]
    /\ UNCHANGED <<durVars, match, cacheVars, digestOf, inputVars, runs>>

\* let current = await getInitialStep(), then the first loop test
FindInitResume(r) ==
    /\ r \in runs
    /\ run[r].op \in {"nearest", "range"}
    /\ run[r].status = "running" /\ run[r].pc = "init"
    /\ \E out \in hashTimestamp(0) :
         /\ digestOf' = Hashed(0, out)
         /\ run' = [run EXCEPT ![r] =
                      IF ~out.ok THEN Fail(@, out.error)
                      ELSE LET current == getInitialStep(out.hash)
                               rec == [@ EXCEPT !.origin = current,
                                                !.current = current]
                           IN  IF current.timestamp < @.target
                               THEN [rec EXCEPT !.pc = "find"]
                               ELSE FindReturn(rec, current)]
    /\ UNCHANGED <<durVars, match, cacheVars, inputVars, runs>>

\* one iteration of the while loop of findStepNearTimestamp
FindLoopResume(r) ==
    /\ r \in runs
    /\ run[r].op \in {"nearest", "range"}
    /\ run[r].status = "running" /\ run[r].pc = "find"
    /\ run[r].current.index < MaxWalk
    /\ run[r].current.timestamp \in Timestamps
    /\ \E out \in hashTimestamp(run[r].current.timestamp) :
         /\ digestOf' = Hashed(run[r].current.timestamp, out)
         /\ run' = [run EXCEPT ![r] =
                      IF ~out.ok THEN Fail(@, out.error)
                      ELSE LET nxt == calculateNextStep(@.current, @.config, out.hash)
                               rec == Stepped(@, @.current, nxt)
                           IN  IF nxt.timestamp > @.target
                               THEN FindReturn(rec, Closer(@.current, nxt, @.target))
                               ELSE IF nxt.timestamp < @.target
                               THEN [rec EXCEPT !.current = nxt]
                               ELSE FindReturn(rec, nxt)]
    /\ UNCHANGED <<durVars, match, cacheVars, inputVars, runs>>

(***************************************************************************)
(* calculateStepsInRange(startDate, endDate, config); target holds         *)
(* startDate.getTime() and endTs holds endDate.getTime().                  *)
(***************************************************************************)
CallCalculateStepsInRange(r) ==
    /\ CanCall(r)
    /\ \E startTimestamp \in 0 .. MaxTarget, endTimestamp \in 0 .. MaxTarget,
          cfg \in configs :
         run' = [run EXCEPT ![r] =
                   [IdleRun EXCEPT !.op = "range", !.status = "running",
                                   !.pc = "init", !.config = cfg,
                                   !.target = startTimestamp,
                                   !.endTs = endTimestamp]]
    /\ UNCHANGED <<durVars, match, cacheVars, digestOf, inputVars, runs>>

StepsInRangeResume(r) ==
    /\ r \in runs
    /\ run[r].op = "range"
    /\ run[r].status = "running" /\ run[r].pc = "loop"
    /\ Len(run[r].steps) < MaxWalk
    /\ run[r].current.timestamp \in Timestamps
    /\ \E out \in hashTimestamp(run[r].current.timestamp) :
         /\ digestOf' = Hashed(run[r].current.timestamp, out)
         /\ run' = [run EXCEPT ![r] =
                      IF ~out.ok THEN Fail(@, out.error)
                      ELSE LET nxt == calculateNextStep(@.current, @.config, out.hash)
                               steps == IF nxt.timestamp <= @.endTs
                                        THEN Append(@.steps, nxt) ELSE @.steps
                               rec == [Stepped(@, @.current, nxt) EXCEPT
                                         !.current = nxt, !.steps = steps]
                           IN  IF nxt.timestamp < @.endTs
                               THEN rec
                               ELSE [rec EXCEPT !.status = "returned",
                                                !.retSteps = steps]]
    /\ UNCHANGED <<durVars, match, cacheVars, inputVars, runs>>

(***************************************************************************)
(* cache.StepCache.  cache is the Map index -> StepCacheEntry as the       *)
(* sequence of its entries in iteration order: a new key goes to the end,  *)
(* a key set again keeps its place.  order is the tick at which the key    *)
(* entered the Map.  checkpoints is the Map index -> step as the set of    *)
(* its values (the key of a value is its index).                          *)
(***************************************************************************)
CacheIndices == {0, 1, 1000, 2000}

\* the steps callers put in a cache; two chains disagree on steps 0 and 1000
CacheSteps ==
    {[index |-> i, timestamp |-> i + 10, interval |-> 0, hash |-> ZeroDigest] :
        i \in CacheIndices}
    \cup {[index |-> i, timestamp |-> i + 20, interval |-> 0, hash |-> OnesDigest] :
        i \in {0, 1000}}

NoOp == [name |-> "none", index |-> -1, step |-> NoStep, ret |-> NoStep,
         stats |-> <<>>, sizeBefore |-> 0, wasPresent |-> FALSE]

CacheIdle ==
    /\ cache = <<>> /\ checkpoints = {} /\ maxSize = 1 /\ tick = 0
    /\ lastOp = NoOp

Keys(c) == {c[i].key : i \in DOMAIN c}

\* Map.get on the entries
EntryOf(c, index) ==
    IF index \in Keys(c)
    THEN (CHOOSE i \in DOMAIN c : c[i].key = index)
    ELSE 0

\* StepCache.get
Get(c, index) ==
    IF EntryOf(c, index) # 0 THEN c[EntryOf(c, index)].entry.step ELSE NoStep

\* StepCache.getByTimestamp: the first entry in iteration order
GetByTimestamp(c, timestamp) ==
    LET hits == {i \in DOMAIN c : c[i].entry.step.timestamp = timestamp}
    IN  IF hits = {} THEN NoStep
        ELSE c[CHOOSE i \in hits : \A j \in hits : i <= j].entry.step

\* StepCache.getNearestCheckpoint
GetNearestCheckpoint(cps, targetIndex) ==
    LET checkpointIndex == (targetIndex \div 1000) * 1000
    IN  IF \E s \in cps : s.index = checkpointIndex
        THEN CHOOSE s \in cps : s.index = checkpointIndex
        ELSE NoStep

\* the comparison  this.cache.size >= this.maxSize  with  >
IsFullGt(size, max) == size > max

\* the test  this.cache.size >= this.maxSize
IsFull(size, max) == size >= max

\* deleting the last key of the Map instead of the first
EvictNewest(c) == IF c = <<>> THEN c ELSE SubSeq(c, 1, Len(c) - 1)

\* a full cache that deletes no key
EvictNothing(c) == c

\* cache.delete(cache.keys().next().value): nothing to delete when empty
EvictOldest(c) == IF c = <<>> THEN c ELSE Tail(c)

\* Map.set(step.index, {step, timestamp: Date.now()})
MapSet(c, step, now) ==
    IF step.index \in Keys(c)
    THEN [i \in DOMAIN c |->
            IF c[i].key = step.index
            THEN [c[i] EXCEPT !.entry = [step |-> step, timestamp |-> now]]
            ELSE c[i]]
    ELSE Append(c, [key |-> step.index,
                    entry |-> [step |-> step, timestamp |-> now],
                    order |-> now])

\* the test  step.index % 1000 === 0
IsCheckpoint(index) == index % 1000 = 0

\* new StepCache(maxSize)
Construct ==
    /\ lastOp.name = "none"
    /\ \E size \in 0 .. MaxCacheSize : maxSize' = size
    /\ lastOp' = [NoOp EXCEPT !.name = "new"]
    /\ UNCHANGED <<durVars, match, digestOf, inputVars, runs, run, cache, checkpoints, tick>>

\* a set that yields after writing the entry, before storing the checkpoint
SetEntryOnly(step) ==
    /\ lastOp.name # "none"
    /\ tick < MaxSets
    /\ LET kept == IF IsFull(Len(cache), maxSize)
                   THEN EvictOldest(cache) ELSE cache
       IN  cache' = MapSet(kept, step, tick)
    /\ tick' = tick + 1
    /\ lastOp' = [NoOp EXCEPT !.name = "set", !.index = step.index,
                              !.step = step, !.sizeBefore = Len(cache),
                              !.wasPresent = (step.index \in Keys(cache))]
    /\ UNCHANGED <<durVars, match, digestOf, inputVars, runs, run, maxSize,
                   checkpoints>>

\* StepCache.set(step)
Set(step) ==
    /\ lastOp.name # "none"
    /\ tick < MaxSets
    /\ LET kept == IF IsFull(Len(cache), maxSize)
                   THEN EvictOldest(cache) ELSE cache
       IN  cache' = MapSet(kept, step, tick)
    /\ checkpoints' =
          IF IsCheckpoint(step.index)
          THEN {s \in checkpoints : s.index # step.index} \cup {step}
          ELSE checkpoints
    /\ tick' = tick + 1
    /\ lastOp' = [NoOp EXCEPT !.name = "set", !.index = step.index,
                              !.step = step, !.sizeBefore = Len(cache),
                              !.wasPresent = (step.index \in Keys(cache))]
    /\ UNCHANGED <<durVars, match, digestOf, inputVars, runs, run, maxSize>>

\* a get that moves the entry it reads to the end of the Map (LRU promotion)
CacheGetPromote(index) ==
    /\ lastOp.name # "none"
    /\ lastOp' = [NoOp EXCEPT !.name = "get", !.index = index,
                              !.ret = Get(cache, index)]
    /\ cache' = IF EntryOf(cache, index) = 0 THEN cache
                ELSE LET i == EntryOf(cache, index)
                     IN  Append(SubSeq(cache, 1, i - 1)
                                    \o SubSeq(cache, i + 1, Len(cache)),
                                cache[i])
    /\ UNCHANGED <<durVars, match, digestOf, inputVars, runs, run,
                   checkpoints, maxSize, tick>>

\* StepCache.get(index)
CacheGet(index) ==
    /\ lastOp.name # "none"
    /\ lastOp' = [NoOp EXCEPT !.name = "get", !.index = index,
                              !.ret = Get(cache, index)]
    /\ UNCHANGED <<durVars, match, digestOf, inputVars, runs, run,
                   cache, checkpoints, maxSize, tick>>

\* StepCache.getByTimestamp(timestamp)
CacheGetByTimestamp(timestamp) ==
    /\ lastOp.name # "none"
    /\ lastOp' = [NoOp EXCEPT !.name = "getByTimestamp", !.index = timestamp,
                              !.ret = GetByTimestamp(cache, timestamp)]
    /\ UNCHANGED <<durVars, match, digestOf, inputVars, runs, run,
                   cache, checkpoints, maxSize, tick>>

\* StepCache.getNearestCheckpoint(targetIndex)
CacheGetNearestCheckpoint(targetIndex) ==
    /\ lastOp.name # "none"
    /\ lastOp' = [NoOp EXCEPT !.name = "getNearestCheckpoint",
                              !.index = targetIndex,
                              !.ret = GetNearestCheckpoint(checkpoints, targetIndex)]
    /\ UNCHANGED <<durVars, match, digestOf, inputVars, runs, run,
                   cache, checkpoints, maxSize, tick>>

\* a clear that resets the entry map and keeps the checkpoint map
ClearEntriesOnly ==
    /\ lastOp.name # "none"
    /\ cache' = <<>>
    /\ lastOp' = [NoOp EXCEPT !.name = "clear"]
    /\ UNCHANGED <<durVars, match, digestOf, inputVars, runs, run, maxSize, tick,
                   checkpoints>>

\* StepCache.clear()
Clear ==
    /\ lastOp.name # "none"
    /\ cache' = <<>>
    /\ checkpoints' = {}
    /\ lastOp' = [NoOp EXCEPT !.name = "clear"]
    /\ UNCHANGED <<durVars, match, digestOf, inputVars, runs, run, maxSize, tick>>

\* StepCache.getStats()
GetStats ==
    /\ lastOp.name # "none"
    /\ lastOp' = [NoOp EXCEPT !.name = "getStats",
                              !.stats = <<Len(cache), maxSize,
                                          Cardinality(checkpoints)>>]
    /\ UNCHANGED <<durVars, match, digestOf, inputVars, runs, run,
                   cache, checkpoints, maxSize, tick>>

(***************************************************************************)
(* similarityScore.  A JavaScript number is modelled in fixed point, in    *)
(* units of 1 / Scale, with NaN as a value of its own; sums of quotients   *)
(* are kept as exact fractions and rounded once.  Intervals are            *)
(* non-negative integers.                                                  *)
(***************************************************************************)
Scale == 10000
\* digits kept below the unit when taking a square root
RootScale == 100
NaN == 0 - 1000000

\* MAX_INTERVAL_MS (7 days in ms), in the interval unit of the model
MAX_INTERVAL_MS == MaxM

Min(a, b) == IF a <= b THEN a ELSE b

\* Math.max(a, b) and Math.min(a, b): NaN when an argument is NaN
MathMax(a, b) == IF a = NaN \/ b = NaN THEN NaN ELSE Max(a, b)
MathMin(a, b) == IF a = NaN \/ b = NaN THEN NaN ELSE Min(a, b)

\* Math.sqrt on a non-negative integer, rounded down
RECURSIVE SqrtIn(_, _, _)
SqrtIn(v, lo, hi) ==
    IF lo >= hi THEN lo
    ELSE LET mid == (lo + hi + 1) \div 2
         IN  IF mid * mid <= v THEN SqrtIn(v, mid, hi)
             ELSE SqrtIn(v, lo, mid - 1)

Sqrt(v) == SqrtIn(v, 0, Min(v, 46340))

\* x.slice(0, n).reduce((sum, val) => sum + val, 0)
RECURSIVE SumFirst(_, _)
SumFirst(x, n) == IF n = 0 THEN 0 ELSE SumFirst(x, n - 1) + x[n]

\* the three sums of the loop of pearsonCorrelation over i < n, with each
\* deviation x[i] - meanX taken n times so that it is an integer
RECURSIVE PearsonSums(_, _, _, _, _, _)
PearsonSums(x, y, n, sumX, sumY, i) ==
    IF i = 0 THEN [numerator |-> 0, sumSqX |-> 0, sumSqY |-> 0]
    ELSE LET acc == PearsonSums(x, y, n, sumX, sumY, i - 1)
             dx == n * x[i] - sumX
             dy == n * y[i] - sumY
         IN  [numerator |-> acc.numerator + dx * dy,
              sumSqX |-> acc.sumSqX + dx * dx,
              sumSqY |-> acc.sumSqY + dy * dy]

\* pearsonCorrelation(x, y), in units of 1 / Scale
pearsonCorrelation(x, y) ==
    LET n == Min(Len(x), Len(y))
    IN  IF n = 0 THEN 0
        ELSE LET sums == PearsonSums(x, y, n, SumFirst(x, n), SumFirst(y, n), n)
                 product == sums.sumSqX * sums.sumSqY
                 denominator == Sqrt(product * RootScale * RootScale)
             IN  IF product = 0 THEN 0
                 ELSE IF sums.numerator >= 0
                 THEN (sums.numerator * Scale * RootScale) \div denominator
                 ELSE 0 - (((0 - sums.numerator) * Scale * RootScale)
                              \div denominator)

\* the ratio loop of calculateSimilarity: ratioSum as the fraction <<a, b>>
RECURSIVE RatioSum(_, _, _)
RatioSum(userIntervals, quantumIntervals, i) ==
    IF i = 0 THEN <<0, 1>>
    ELSE LET acc == RatioSum(userIntervals, quantumIntervals, i - 1)
             u == userIntervals[i]
             q == quantumIntervals[i]
         IN  IF u = 0 /\ q = 0 THEN <<acc[1] + acc[2], acc[2]>>
             ELSE <<acc[1] * Max(u, q) + Min(u, q) * acc[2],
                    acc[2] * Max(u, q)>>

\* userIntervals.reduce((sum, u, i) => sum + Math.abs(u - quantumIntervals[i]), 0):
\* the reduce runs over every element of userIntervals, and past the end of
\* quantumIntervals the term is Math.abs(u - undefined) = NaN
RECURSIVE ErrorSum(_, _, _)
ErrorSum(userIntervals, quantumIntervals, i) ==
    IF i = 0 THEN 0
    ELSE LET acc == ErrorSum(userIntervals, quantumIntervals, i - 1)
         IN  IF acc = NaN \/ i > Len(quantumIntervals) THEN NaN
             ELSE acc + Abs(userIntervals[i] - quantumIntervals[i])

\* calculateSimilarity(userIntervals, quantumIntervals, maxInterval), in
\* units of 1 / Scale
calculateSimilarity(userIntervals, quantumIntervals, maxInterval) ==
    LET n == Min(Len(userIntervals), Len(quantumIntervals))
    IN  IF n = 0 THEN 0
        ELSE
        LET ratioSum == RatioSum(userIntervals, quantumIntervals, n)
            ratioScore == (ratioSum[1] * Scale) \div (ratioSum[2] * n)
            errorSum == ErrorSum(userIntervals, quantumIntervals,
                                 Len(userIntervals))
            errorScore ==
                IF errorSum = NaN THEN NaN
                ELSE MathMax(0, (Scale * (n * maxInterval - errorSum))
                                   \div (n * maxInterval))
            correlation == pearsonCorrelation(userIntervals, quantumIntervals)
            corrScore == (correlation + Scale) \div 2
            finalScore ==
                IF errorScore = NaN THEN NaN
                ELSE (5 * ratioScore + 3 * errorScore + 2 * corrScore) \div 10
        IN  MathMax(0, MathMin(Scale, finalScore))

\* the interval sequences the scorer and the matcher are applied to
IntervalValues == {0, 1, 3}

RECURSIVE SeqsUpTo(_, _)
SeqsUpTo(values, n) ==
    IF n = 0 THEN {<<>>}
    ELSE LET shorter == SeqsUpTo(values, n - 1)
         IN  shorter \cup {Append(s, v) : s \in shorter, v \in values}

IdleMatch ==
    [op |-> "none", status |-> "idle", pc |-> "-", error |-> "none",
     type |-> "intervals", values |-> <<>>, searchRange |-> <<>>,
     userIntervals |-> <<>>, quantumIntervals |-> <<>>,
     quantumSteps |-> <<>>, windowSize |-> 0, maxInterval |-> 1,
     similarityScore |-> 0,
     alignment |-> [offset |-> 0, length |-> 0, alignedSteps |-> <<>>],
     matchedSteps |-> <<>>]

\* calculateSimilarity applied to the arguments held in match
ApplyCalculateSimilarity ==
    /\ match.op = "calculateSimilarity" /\ match.status = "called"
    /\ match' = [match EXCEPT
                   !.status = "returned",
                   !.similarityScore =
                       calculateSimilarity(match.userIntervals,
                                           match.quantumIntervals,
                                           match.maxInterval)]
    /\ UNCHANGED <<durVars, cacheVars, digestOf, inputVars, runs, run>>

(***************************************************************************)
(* sequenceMatcher: parseUserInput, extractIntervals, findBestAlignment.   *)
(* An optional windowSize that is not passed is modelled as 0, which       *)
(* windowSize || userIntervals.length treats like undefined.               *)
(***************************************************************************)
\* parseUserInput(input)
parseUserInput(type, values) ==
    IF type = "intervals" THEN values
    ELSE [i \in 1 .. Len(values) - 1 |-> values[i + 1] - values[i]]

\* extractIntervals(steps)
extractIntervals(steps) == [i \in DOMAIN steps |-> steps[i].interval]

\* Array.prototype.slice(start, end) for 0 <= start <= end
Slice(s, start, end) ==
    IF Min(start, Len(s)) >= Min(end, Len(s)) THEN <<>>
    ELSE SubSeq(s, Min(start, Len(s)) + 1, Min(end, Len(s)))

\* the test of the search loop as  score >= bestScore
ScoreBetterGe(score, bestScore) == score # NaN /\ score >= bestScore

\* the test  score > bestScore  (false when score is NaN)
ScoreBetter(score, bestScore) == score # NaN /\ score > bestScore

\* the sliding window loop of findBestAlignment from offset on; best is
\* <<bestScore, bestOffset>>
RECURSIVE Search(_, _, _, _, _)
Search(userIntervals, quantumIntervals, targetLength, offset, best) ==
    IF offset > Len(quantumIntervals) - targetLength THEN best
    ELSE LET window == Slice(quantumIntervals, offset, offset + targetLength)
             score == calculateSimilarity(userIntervals, window, MAX_INTERVAL_MS)
         IN  Search(userIntervals, quantumIntervals, targetLength, offset + 1,
                    IF ScoreBetter(score, best[1]) THEN <<score, offset>>
                    ELSE best)

\* findBestAlignment(userIntervals, quantumSteps, windowSize)
findBestAlignment(userIntervals, quantumSteps, windowSize) ==
    LET targetLength == IF windowSize # 0 THEN windowSize
                        ELSE Len(userIntervals)
        quantumIntervals == extractIntervals(quantumSteps)
        best == Search(userIntervals, quantumIntervals, targetLength, 0,
                       <<0 - Scale, 0>>)
        bestOffset == best[2]
    IN  [offset |-> bestOffset,
         length |-> targetLength,
         alignedSteps |-> Slice(quantumSteps, bestOffset,
                                bestOffset + targetLength)]

\* the steps of a chain with the given intervals, as a candidate window
StepsOf(intervals) ==
    [i \in DOMAIN intervals |->
        [index |-> i, timestamp |-> SumFirst(intervals, i),
         interval |-> intervals[i], hash |-> ZeroDigest]]

\* findBestAlignment applied to the arguments held in match
ApplyFindBestAlignment ==
    /\ match.op = "findBestAlignment" /\ match.status = "called"
    /\ match' = [match EXCEPT
                   !.status = "returned",
                   !.alignment =
                       findBestAlignment(match.userIntervals,
                                         match.quantumSteps,
                                         match.windowSize)]
    /\ UNCHANGED <<durVars, cacheVars, digestOf, inputVars, runs, run>>

(***************************************************************************)
(* sequenceMatcher.matchSequence(input), run by caller r of the generator. *)
(* Its awaited calls are the operations of the generator above; the        *)
(* statistics field of the result, a function of the two interval          *)
(* sequences returned beside it, is left out.                              *)
(***************************************************************************)
DEFAULT_CONFIG == [maxInterval |-> MAX_INTERVAL_MS, startTimestamp |-> 0]

NoIntervals == "No intervals to match"
RangeTooSmall == "Search range too small for sequence length"

\* the inputs given to matchSequence: interval lists, timestamp lists in
\* ascending order, without a searchRange or with one of two
MatchValues(type) ==
    IF type = "intervals"
    THEN SeqsUpTo({0, 2, MAX_INTERVAL_MS}, MaxLen)
    ELSE {v \in SeqsUpTo({0, 2, MAX_INTERVAL_MS}, MaxLen) :
             \A i \in 1 .. Len(v) - 1 : v[i] <= v[i + 1]}

SearchRanges == {<<>>, <<0, 0>>, <<1, MaxTarget>>}

\* the check with the window allowed to be one step short
TooSmallByTwo(quantumSteps, userIntervals) ==
    Len(quantumSteps) + 1 < Len(userIntervals)

\* the check  quantumSteps.length < userIntervals.length
TooSmall(quantumSteps, userIntervals) ==
    Len(quantumSteps) < Len(userIntervals)

\* the call, up to the first await or the first throw
MatchSequence(r) ==
    /\ r \in runs
    /\ match.status = "idle" /\ run[r].status = "idle"
    /\ \E type \in {"intervals", "timestamps"}, searchRange \in SearchRanges :
         \E values \in MatchValues(type) :
            LET userIntervals == parseUserInput(type, values)
                called == [IdleMatch EXCEPT
                             !.op = "matchSequence", !.type = type,
                             !.values = values, !.searchRange = searchRange,
                             !.userIntervals = userIntervals]
            IN  IF Len(userIntervals) = 0
                THEN /\ match' = [called EXCEPT !.status = "failed",
                                                !.error = NoIntervals]
                     /\ run' = run
                ELSE IF searchRange # <<>>
                THEN /\ match' = [called EXCEPT !.status = "running",
                                                !.pc = "range"]
                     /\ run' = [run EXCEPT ![r] =
                                  [IdleRun EXCEPT
                                     !.op = "range", !.status = "running",
                                     !.pc = "init", !.config = DEFAULT_CONFIG,
                                     !.target = searchRange[1],
                                     !.endTs = searchRange[2]]]
                ELSE /\ match' = [called EXCEPT !.status = "running",
                                                !.pc = "initial"]
                     /\ run' = [run EXCEPT ![r] =
                                  [IdleRun EXCEPT
                                     !.op = "initial", !.status = "running",
                                     !.pc = "init"]]
    /\ UNCHANGED <<durVars, cacheVars, digestOf, inputVars, runs>>

\* const initialStep = await getInitialStep() has settled: the call of
\* calculateStepsForward(initialStep, 10000)
MatchInitialResume(r) ==
    /\ r \in runs
    /\ match.status = "running" /\ match.pc = "initial"
    /\ run[r].op = "initial" /\ run[r].status \in {"returned", "failed"}
    /\ IF run[r].status = "failed"
       THEN /\ match' = [match EXCEPT !.status = "failed",
                                      !.error = run[r].error]
            /\ run' = run
       ELSE /\ match' = [match EXCEPT !.pc = "forward"]
            /\ run' = [run EXCEPT ![r] =
                         [IdleRun EXCEPT
                            !.op = "forward", !.pc = "loop",
                            !.config = DEFAULT_CONFIG,
                            !.start = run[r].retStep,
                            !.current = run[r].retStep,
                            !.fromInit = TRUE, !.count = MatchCount,
                            !.status = IF ForwardContinues(0, MatchCount)
                                       THEN "running" ELSE "returned"]]
    /\ UNCHANGED <<durVars, cacheVars, digestOf, inputVars, runs>>

\* quantumSteps = await ... has settled: the rest of matchSequence
MatchStepsResume(r) ==
    /\ r \in runs
    /\ match.status = "running"
    /\ \/ match.pc = "range" /\ run[r].op = "range"
       \/ match.pc = "forward" /\ run[r].op = "forward"
    /\ run[r].status \in {"returned", "failed"}
    /\ match' =
          IF run[r].status = "failed"
          THEN [match EXCEPT !.status = "failed", !.error = run[r].error]
          ELSE LET quantumSteps == run[r].retSteps
                   alignment == findBestAlignment(match.userIntervals,
                                                  quantumSteps, 0)
                   quantumIntervals == extractIntervals(alignment.alignedSteps)
               IN  IF TooSmall(quantumSteps, match.userIntervals)
                   THEN [match EXCEPT !.status = "failed", !.pc = "steps",
                                      !.error = RangeTooSmall,
                                      !.quantumSteps = quantumSteps]
                   ELSE [match EXCEPT
                           !.status = "returned", !.pc = "steps",
                           !.quantumSteps = quantumSteps,
                           !.alignment = alignment,
                           !.matchedSteps = alignment.alignedSteps,
                           !.quantumIntervals = quantumIntervals,
                           !.similarityScore =
                               calculateSimilarity(match.userIntervals,
                                                   quantumIntervals,
                                                   MAX_INTERVAL_MS)]
    /\ UNCHANGED <<durVars, cacheVars, digestOf, inputVars, runs, run>>

(***************************************************************************)
(* sequenceMatcher.getPreviousSteps(targetStep, count).  Its calls of      *)
(* calculateNextStep pass no config, so DEFAULT_CONFIG applies.            *)
(***************************************************************************)
\* Array.prototype.reverse
Reverse(s) == [k \in 1 .. Len(s) |-> s[Len(s) + 1 - k]]

\* the target steps callers pass: one of each index, on a chain of interval 1
TargetSteps ==
    {[index |-> k, timestamp |-> k, interval |-> IF k = 0 THEN 0 ELSE 1,
      hash |-> OnesDigest] : k \in 0 .. MaxIndex}

CallGetPreviousSteps(r) ==
    /\ CanCall(r)
    /\ \E targetStep \in starts, count \in counts :
         run' = [run EXCEPT ![r] =
                   [IdleRun EXCEPT
                      !.op = "previous", !.pc = "init",
                      !.config = DEFAULT_CONFIG,
                      !.start = targetStep, !.count = count,
                      !.status = IF targetStep.index = 0
                                 THEN "returned" ELSE "running"]]
    /\ UNCHANGED <<durVars, match, cacheVars, digestOf, inputVars, runs>>

\* let current = await getInitialStep(), then the first test of the for loop
PreviousInitResume(r) ==
    /\ r \in runs
    /\ run[r].op = "previous"
    /\ run[r].status = "running" /\ run[r].pc = "init"
    /\ \E out \in hashTimestamp(0) :
         /\ digestOf' = Hashed(0, out)
         /\ run' = [run EXCEPT ![r] =
                      IF ~out.ok THEN Fail(@, out.error)
                      ELSE LET current == getInitialStep(out.hash)
                               rec == [@ EXCEPT !.origin = current,
                                                !.current = current, !.i = 0]
                           IN  IF 0 < @.start.index
                               THEN [rec EXCEPT !.pc = "loop"]
                               ELSE [rec EXCEPT !.status = "returned",
                                                !.retSteps = Reverse(@.steps)]]
    /\ UNCHANGED <<durVars, match, cacheVars, inputVars, runs>>

\* one iteration of the for loop, then its next test
PreviousLoopResume(r) ==
    /\ r \in runs
    /\ run[r].op = "previous"
    /\ run[r].status = "running" /\ run[r].pc = "loop"
    /\ run[r].current.timestamp \in Timestamps
    /\ \E out \in hashTimestamp(run[r].current.timestamp) :
         /\ digestOf' = Hashed(run[r].current.timestamp, out)
         /\ run' = [run EXCEPT ![r] =
                      IF ~out.ok THEN Fail(@, out.error)
                      ELSE LET startIndex == MathMax(0, @.start.index - @.count)
                               nxt == calculateNextStep(@.current, @.config, out.hash)
                               steps == IF @.i >= startIndex
                                        THEN Append(@.steps, nxt) ELSE @.steps
                               rec == [Stepped(@, @.current, nxt) EXCEPT
                                         !.current = nxt, !.steps = steps,
                                         !.i = @ + 1]
                           IN  IF @.i + 1 < @.start.index
                               THEN rec
                               ELSE [rec EXCEPT !.status = "returned",
                                                !.retSteps = Reverse(steps)]]
    /\ UNCHANGED <<durVars, match, cacheVars, inputVars, runs>>

(***************************************************************************)
(* stepCalculator.getNextStep(config); target holds now = Date.now().      *)
(***************************************************************************)
CallGetNextStep(r) ==
    /\ CanCall(r)
    /\ \E now \in 0 .. MaxTarget, cfg \in configs :
         run' = [run EXCEPT ![r] =
                   [IdleRun EXCEPT !.op = "upcoming", !.status = "running",
                                   !.pc = "init", !.config = cfg,
                                   !.target = now]]
    /\ UNCHANGED <<durVars, match, cacheVars, digestOf, inputVars, runs>>

\* let current = await getInitialStep(), then the first loop test
NextStepInitResume(r) ==
    /\ r \in runs
    /\ run[r].op = "upcoming"
    /\ run[r].status = "running" /\ run[r].pc = "init"
    /\ \E out \in hashTimestamp(0) :
         /\ digestOf' = Hashed(0, out)
         /\ run' = [run EXCEPT ![r] =
                      IF ~out.ok THEN Fail(@, out.error)
                      ELSE LET current == getInitialStep(out.hash)
                               rec == [@ EXCEPT !.origin = current,
                                                !.current = current]
                           IN  IF current.timestamp <= @.target
                               THEN [rec EXCEPT !.pc = "loop"]
                               ELSE [rec EXCEPT !.status = "returned",
                                                !.retStep = current]]
    /\ UNCHANGED <<durVars, match, cacheVars, inputVars, runs>>

\* one iteration of the while loop of getNextStep
NextStepLoopResume(r) ==
    /\ r \in runs
    /\ run[r].op = "upcoming"
    /\ run[r].status = "running" /\ run[r].pc = "loop"
    /\ run[r].current.index < MaxWalk
    /\ run[r].current.timestamp \in Timestamps
    /\ \E out \in hashTimestamp(run[r].current.timestamp) :
         /\ digestOf' = Hashed(run[r].current.timestamp, out)
         /\ run' = [run EXCEPT ![r] =
                      IF ~out.ok THEN Fail(@, out.error)
                      ELSE LET nxt == calculateNextStep(@.current, @.config, out.hash)
                               rec == [Stepped(@, @.current, nxt) EXCEPT
                                         !.current = nxt]
                           IN  IF nxt.timestamp <= @.target
                               THEN rec
                               ELSE [rec EXCEPT !.status = "returned",
                                                !.retStep = nxt]]
    /\ UNCHANGED <<durVars, match, cacheVars, inputVars, runs>>

(***************************************************************************)
(* The pure function hashToDuration applied to inputs                      *)
(***************************************************************************)
ApplyHashToDuration ==
    /\ dOut = -1
    /\ dOut' = hashToDuration(dHash, dMax)
    /\ UNCHANGED <<dHash, dMax, match, cacheVars, digestOf, inputVars, runs, run>>

(***************************************************************************)
(* Specifications                                                          *)
(***************************************************************************)
\* one caller, every operation of the generator, every config
Init ==
    /\ dHash = ZeroDigest /\ dMax = 1 /\ dOut = -1
    /\ digestOf = [t \in Timestamps |-> Unhashed]
    /\ configs = Configs /\ counts = 0 .. MaxCount /\ starts = ArbSteps
    /\ runs = {1}
    /\ run = [r \in {1, 2} |-> IdleRun]
    /\ CacheIdle
    /\ match = IdleMatch

Next ==
    \E r \in {1, 2} :
        \/ CallGetInitialStep(r)
        \/ GetInitialStepResume(r)
        \/ CallCalculateNextStep(r)
        \/ CalculateNextStepResume(r)
        \/ CallCalculateStepsForward(r)
        \/ StepsForwardResume(r)
        \/ CallCalculateStepsUntil(r)
        \/ StepsUntilResume(r)
        \/ CallFindStepNearTimestamp(r)
        \/ FindInitResume(r)
        \/ FindLoopResume(r)
        \/ CallCalculateStepsInRange(r)
        \/ StepsInRangeResume(r)

Spec == Init /\ [][Next]_vars

\* two callers that pass the same config and count and hold either no step
\* or the steps of the last timestamp: each walks on from a held step, or from
\* the origin it obtains from getInitialStep, with calculateNextStep or
\* calculateStepsForward, interleaved with the other at every await
InitPair ==
    /\ dHash = ZeroDigest /\ dMax = 1 /\ dOut = -1
    /\ digestOf = [t \in Timestamps |-> Unhashed]
    /\ configs \in {{cfg} : cfg \in Configs}
    /\ counts \in {{count} : count \in 0 .. MaxCount}
    /\ starts \in {{}, {step \in ArbSteps : step.timestamp = MaxStartTs}}
    /\ runs = {1, 2}
    /\ run = [r \in {1, 2} |-> IdleRun]
    /\ CacheIdle
    /\ match = IdleMatch

NextPair ==
    \E r \in {1, 2} :
        \/ CallGetInitialStep(r)
        \/ GetInitialStepResume(r)
        \/ CallCalculateNextStep(r)
        \/ CalculateNextStepResume(r)
        \/ CallCalculateStepsForward(r)
        \/ StepsForwardResume(r)

SpecPair == InitPair /\ [][NextPair]_vars

\* one StepCache and every sequence of calls on it
InitCache ==
    /\ dHash = ZeroDigest /\ dMax = 1 /\ dOut = -1
    /\ digestOf = [t \in Timestamps |-> Unhashed]
    /\ configs = {} /\ counts = {} /\ starts = {} /\ runs = {}
    /\ run = [r \in {1, 2} |-> IdleRun]
    /\ CacheIdle
    /\ match = IdleMatch

NextCache ==
    \/ Construct
    \/ \E step \in CacheSteps : Set(step)
    \/ \E index \in CacheIndices \cup {999, 1999} : CacheGet(index)
    \/ \E timestamp \in {10, 20, 1010} : CacheGetByTimestamp(timestamp)
    \/ \E targetIndex \in CacheIndices \cup {999, 1999} :
          CacheGetNearestCheckpoint(targetIndex)
    \/ Clear
    \/ GetStats

SpecCache == InitCache /\ [][NextCache]_vars

\* a caller that walks chains from the origin with one of two configs and
\* keeps the steps it obtains in one shared StepCache (globalStepCache)
ObtainedSteps ==
    UNION {{run[r].retStep} \cup {run[r].retSteps[i] : i \in DOMAIN run[r].retSteps} :
              r \in runs} \ {NoStep}

InitShared ==
    /\ dHash = ZeroDigest /\ dMax = 1 /\ dOut = -1
    /\ digestOf = [t \in Timestamps |-> Unhashed]
    /\ configs = {cfg \in Configs : /\ cfg.maxInterval \in {1, 2}
                                   /\ cfg.startTimestamp = 0}
    /\ counts = {MaxCount} /\ starts = {}
    /\ runs = {1}
    /\ run = [r \in {1, 2} |-> IdleRun]
    /\ CacheIdle
    /\ match = IdleMatch

NextShared ==
    \/ \E r \in {1, 2} :
          \/ CallGetInitialStep(r)
          \/ GetInitialStepResume(r)
          \/ CallCalculateStepsForward(r)
          \/ StepsForwardResume(r)
    \/ Construct
    \/ \E step \in ObtainedSteps : Set(step)
    \/ \E index \in 0 .. MaxCount : CacheGet(index)
    \/ \E targetIndex \in 0 .. MaxCount : CacheGetNearestCheckpoint(targetIndex)
    \/ Clear

SpecShared == InitShared /\ [][NextShared]_vars

\* hashToDuration applied to every digest and maxInterval of the bounds
InitDur ==
    /\ dHash \in AllDigests /\ dMax \in 1 .. MaxM /\ dOut = -1
    /\ digestOf = [t \in Timestamps |-> Unhashed]
    /\ configs = {} /\ counts = {} /\ starts = {} /\ runs = {}
    /\ run = [r \in {1, 2} |-> IdleRun]
    /\ CacheIdle
    /\ match = IdleMatch

NextDur == ApplyHashToDuration

SpecDur == InitDur /\ [][NextDur]_vars

\* calculateSimilarity applied to every pair of interval sequences and every
\* maxInterval of the bounds
InitSim ==
    /\ dHash = ZeroDigest /\ dMax = 1 /\ dOut = -1
    /\ digestOf = [t \in Timestamps |-> Unhashed]
    /\ configs = {} /\ counts = {} /\ starts = {} /\ runs = {}
    /\ run = [r \in {1, 2} |-> IdleRun]
    /\ CacheIdle
    /\ match \in {[IdleMatch EXCEPT !.op = "calculateSimilarity",
                                     !.status = "called",
                                     !.userIntervals = u,
                                     !.quantumIntervals = q,
                                     !.maxInterval = m] :
                      u \in SeqsUpTo(IntervalValues, MaxLen),
                      q \in SeqsUpTo(IntervalValues, MaxLen),
                      m \in 1 .. MaxM}

NextSim == ApplyCalculateSimilarity

SpecSim == InitSim /\ [][NextSim]_vars

\* findBestAlignment applied to every user sequence and candidate window of
\* the bounds, without a windowSize, with one that is 2 and with one larger
\* than every candidate window
InitAlign ==
    /\ dHash = ZeroDigest /\ dMax = 1 /\ dOut = -1
    /\ digestOf = [t \in Timestamps |-> Unhashed]
    /\ configs = {} /\ counts = {} /\ starts = {} /\ runs = {}
    /\ run = [r \in {1, 2} |-> IdleRun]
    /\ CacheIdle
    /\ match \in {[IdleMatch EXCEPT !.op = "findBestAlignment",
                                     !.status = "called",
                                     !.userIntervals = u,
                                     !.quantumSteps = StepsOf(q),
                                     !.windowSize = w] :
                      u \in SeqsUpTo(IntervalValues, MaxLen),
                      q \in SeqsUpTo(IntervalValues, MaxLen + 1),
                      w \in {0, 2, MaxLen + 2}}

NextAlign == ApplyFindBestAlignment

SpecAlign == InitAlign /\ [][NextAlign]_vars

\* one caller running matchSequence on every input of the bounds
InitMatch ==
    /\ dHash = ZeroDigest /\ dMax = 1 /\ dOut = -1
    /\ digestOf = [t \in Timestamps |-> Unhashed]
    /\ configs = {DEFAULT_CONFIG} /\ counts = {MatchCount} /\ starts = {}
    /\ runs = {1}
    /\ run = [r \in {1, 2} |-> IdleRun]
    /\ CacheIdle
    /\ match = IdleMatch

NextMatch ==
    \E r \in {1, 2} :
        \/ MatchSequence(r)
        \/ MatchInitialResume(r)
        \/ MatchStepsResume(r)
        \/ GetInitialStepResume(r)
        \/ StepsForwardResume(r)
        \/ FindInitResume(r)
        \/ FindLoopResume(r)
        \/ StepsInRangeResume(r)

SpecMatch == InitMatch /\ [][NextMatch]_vars

\* the generator with the scheduling of the host: a pending await of
\* calculateStepsUntil is resumed once the hasher has settled
FairSpec ==
    Spec /\ \A r \in {1, 2} : WF_vars(StepsUntilResume(r))

\* one caller running getPreviousSteps on every target step and count of the
\* bounds
InitPrev ==
    /\ dHash = ZeroDigest /\ dMax = 1 /\ dOut = -1
    /\ digestOf = [t \in Timestamps |-> Unhashed]
    /\ configs = {DEFAULT_CONFIG} /\ counts = 0 .. MaxCount
    /\ starts = TargetSteps
    /\ runs = {1}
    /\ run = [r \in {1, 2} |-> IdleRun]
    /\ CacheIdle
    /\ match = IdleMatch

NextPrev ==
    \E r \in {1, 2} :
        \/ CallGetPreviousSteps(r)
        \/ PreviousInitResume(r)
        \/ PreviousLoopResume(r)

SpecPrev == InitPrev /\ [][NextPrev]_vars

\* one caller running one of the walks that have no iteration ceiling
\* (findStepNearTimestamp, calculateStepsInRange, getNextStep) on every
\* target and config of the bounds
InitWalk ==
    /\ dHash = ZeroDigest /\ dMax = 1 /\ dOut = -1
    /\ digestOf = [t \in Timestamps |-> Unhashed]
    /\ configs = Configs /\ counts = {} /\ starts = {}
    /\ runs = {1}
    /\ run = [r \in {1, 2} |-> IdleRun]
    /\ CacheIdle
    /\ match = IdleMatch

NextWalk ==
    \E r \in {1, 2} :
        \/ CallFindStepNearTimestamp(r)
        \/ FindInitResume(r)
        \/ FindLoopResume(r)
        \/ CallCalculateStepsInRange(r)
        \/ StepsInRangeResume(r)
        \/ CallGetNextStep(r)
        \/ NextStepInitResume(r)
        \/ NextStepLoopResume(r)

SpecWalk == InitWalk /\ [][NextWalk]_vars

\* the walks with the scheduling of the host: a pending await is resumed
\* once the hasher has settled
FairWalk ==
    SpecWalk /\ \A r \in {1, 2} :
                   /\ WF_vars(FindInitResume(r))
                   /\ WF_vars(FindLoopResume(r))
                   /\ WF_vars(StepsInRangeResume(r))
                   /\ WF_vars(NextStepInitResume(r))
                   /\ WF_vars(NextStepLoopResume(r))

(***************************************************************************)
(* The chain as the hasher defines it, for stating the properties          *)
(***************************************************************************)
IsHashed(step) ==
    /\ step # NoStep
    /\ step.timestamp \in Timestamps
    /\ digestOf[step.timestamp] # Unhashed

\* the k-th successor of step; NoStep when it passes an unhashed timestamp
RECURSIVE Walk(_, _, _)
Walk(step, config, k) ==
    IF k = 0 THEN step
    ELSE IF ~IsHashed(step) THEN NoStep
    ELSE Walk(calculateNextStep(step, config, digestOf[step.timestamp]),
              config, k - 1)

\* the origin of the chain the walks of the generator follow
Origin == IF digestOf[0] = Unhashed THEN NoStep ELSE getInitialStep(digestOf[0])

\* k is the position after step of the first step at or past targetTimestamp
FirstAtOrPast(step, config, targetTimestamp, k) ==
    /\ Walk(step, config, k) # NoStep
    /\ Walk(step, config, k).timestamp >= targetTimestamp
    /\ \A j \in 0 .. k - 1 : Walk(step, config, j).timestamp < targetTimestamp

Projection(steps) ==
    [i \in 1 .. Len(steps) |->
        <<steps[i].hash, steps[i].interval, steps[i].timestamp>>]

\* C1: hashToDuration(digest, M) is an integer d with 0 <= d < M, for every
\* digest and every positive maxInterval M.
C1_DurationBound == dOut # -1 => (0 <= dOut /\ dOut < dMax)

\* C2: every step produced by nextStep has index = current.index + 1,
\* timestamp = current.timestamp + interval and interval >= 0; two calls
\* whose current steps have the same timestamp (whatever their index,
\* interval and hash) and the same maxInterval produce the same timestamp,
\* interval and hash; the timestamps of a chain never decrease.
C2_NextStep ==
    /\ \A r \in runs :
         run[r].lastNext # NoStep =>
            /\ run[r].lastNext.index = run[r].lastCur.index + 1
            /\ run[r].lastNext.timestamp =
                   run[r].lastCur.timestamp + run[r].lastNext.interval
            /\ run[r].lastNext.interval >= 0
            /\ run[r].lastNext.timestamp >= run[r].lastCur.timestamp
    /\ \A r1 \in runs, r2 \in runs :
         (/\ run[r1].lastNext # NoStep /\ run[r2].lastNext # NoStep
          /\ run[r1].lastCur.timestamp = run[r2].lastCur.timestamp
          /\ run[r1].config.maxInterval = run[r2].config.maxInterval) =>
            /\ run[r1].lastNext.timestamp = run[r2].lastNext.timestamp
            /\ run[r1].lastNext.interval = run[r2].lastNext.interval
            /\ run[r1].lastNext.hash = run[r2].lastNext.hash
    /\ \A r \in runs :
         \A i \in 1 .. Len(run[r].steps) :
            run[r].steps[i].timestamp >=
               (IF i = 1 THEN run[r].start.timestamp
                ELSE run[r].steps[i - 1].timestamp)

\* two calls of calculateNextStep on steps of equal timestamp that differ in
\* index, interval and hash have both returned
C2_Witness ==
    /\ run[1].lastNext # NoStep /\ run[2].lastNext # NoStep
    /\ run[1].lastCur.timestamp = run[2].lastCur.timestamp
    /\ run[1].lastCur.index # run[2].lastCur.index
    /\ run[1].lastCur.interval # run[2].lastCur.interval
    /\ run[1].lastCur.hash # run[2].lastCur.hash
    /\ run[1].lastNext.interval > 0

\* C3: two runs of calculateStepsForward from the origin, with the same
\* config and the same count, interleaved in any way with each other and
\* with other calls, return identical hash, interval and timestamp sequences.
C3_Determinism ==
    \A r1 \in runs, r2 \in runs :
        (/\ run[r1].op = "forward" /\ run[r1].status = "returned"
         /\ run[r2].op = "forward" /\ run[r2].status = "returned"
         /\ run[r1].fromInit /\ run[r2].fromInit
         /\ run[r1].config = run[r2].config
         /\ run[r1].count = run[r2].count) =>
            Projection(run[r1].retSteps) = Projection(run[r2].retSteps)

\* both callers have run calculateStepsForward from the origin for the same
\* count of at least two steps, with nonzero intervals
C3_Witness ==
    /\ run[1].op = "forward" /\ run[1].status = "returned" /\ run[1].fromInit
    /\ run[2].op = "forward" /\ run[2].status = "returned" /\ run[2].fromInit
    /\ run[1].count = run[2].count /\ run[1].count >= 2
    /\ \A i \in 1 .. Len(run[1].retSteps) : run[1].retSteps[i].interval > 0

\* C4: the origin step the walk of findNearest and stepsInRange starts from
\* has index 0, interval 0, timestamp = config.startTimestamp and
\* hash = digest(config.startTimestamp).
C4_OriginAtStart ==
    \A r \in runs :
        (run[r].op \in {"nearest", "range"} /\ run[r].origin # NoStep) =>
            /\ run[r].origin.index = 0
            /\ run[r].origin.interval = 0
            /\ run[r].origin.timestamp = run[r].config.startTimestamp
            /\ run[r].origin.hash = digestOf[run[r].config.startTimestamp]

\* the step C5 names: among the last chain step before the target and the
\* first at or past it, the one nearer to the target; tieToEarlier says
\* which of the two it is when both are equally near
NearestOf(config, targetTimestamp, k, tieToEarlier) ==
    LET first == Walk(Origin, config, k)
        prev == Walk(Origin, config, k - 1)
        prevDiff == Abs(targetTimestamp - prev.timestamp)
        firstDiff == Abs(targetTimestamp - first.timestamp)
    IN  IF k = 0 THEN first
        ELSE IF prevDiff < firstDiff THEN prev
        ELSE IF firstDiff < prevDiff THEN first
        ELSE IF tieToEarlier THEN prev ELSE first

FindNearestReturns(tieToEarlier) ==
    \A r \in runs :
        (run[r].op = "nearest" /\ run[r].status = "returned") =>
            \E k \in 0 .. MaxWalk :
                /\ FirstAtOrPast(Origin, run[r].config, run[r].target, k)
                /\ run[r].retStep =
                      NearestOf(run[r].config, run[r].target, k, tieToEarlier)

\* C5 as stated: findNearest returns the nearer of the last step before the
\* target and the first step at or past it, the earlier one on a tie.
C5_TieToEarlier == FindNearestReturns(TRUE)

\* C5 as amended: findNearest returns the nearer of the last step before the
\* target and the first step at or past it, and the LATER one (the first
\* step past the target) when both are equally near.
C5_TieToLater == FindNearestReturns(FALSE)

\* findStepNearTimestamp has returned from a target midway between two
\* chain steps
C5_Witness ==
    \E k \in 1 .. MaxWalk :
        /\ run[1].op = "nearest" /\ run[1].status = "returned"
        /\ FirstAtOrPast(Origin, run[1].config, run[1].target, k)
        /\ run[1].target - Walk(Origin, run[1].config, k - 1).timestamp =
              Walk(Origin, run[1].config, k).timestamp - run[1].target
        /\ run[1].retStep = Walk(Origin, run[1].config, k)

\* C6: every step stepsInRange(startTs, endTs) returns lies in
\* [startTs, endTs], and the returned steps are successive chain steps
\* (stated for startTs <= endTs; the claim adds that no chain step of the
\* range is left out).
C6_RangeWithinBounds ==
    \A r \in runs :
        (/\ run[r].op = "range" /\ run[r].status = "returned"
         /\ run[r].target <= run[r].endTs) =>
            /\ \A i \in 1 .. Len(run[r].retSteps) :
                  /\ run[r].target <= run[r].retSteps[i].timestamp
                  /\ run[r].retSteps[i].timestamp <= run[r].endTs
            /\ \A i \in 2 .. Len(run[r].retSteps) :
                  run[r].retSteps[i] =
                     Walk(run[r].retSteps[i - 1], run[r].config, 1)

\* what a finished calculateStepsUntil satisfies when it returned, and when
\* it failed on the step limit
StepsUntilOutcome(r) ==
    /\ Len(run[r].steps) <= StepLimit + 1
    /\ run[r].status = "returned" =>
         /\ run[r].error = "none"
         /\ Len(run[r].retSteps) <= StepLimit
         /\ FirstAtOrPast(run[r].start, run[r].config, run[r].target,
                          Len(run[r].retSteps))
         /\ \A i \in 1 .. Len(run[r].retSteps) :
               run[r].retSteps[i] = Walk(run[r].start, run[r].config, i)
         /\ (Len(run[r].retSteps) = 0) = (run[r].start.timestamp >= run[r].target)
    /\ (run[r].status = "failed" /\ run[r].error = "StepLimit") =>
         \A k \in 0 .. StepLimit :
            /\ Walk(run[r].start, run[r].config, k) # NoStep
            /\ Walk(run[r].start, run[r].config, k).timestamp < run[r].target

StepsUntilTerminates ==
    \A r \in {1, 2} :
        (run[r].op = "until" /\ run[r].status = "running")
            ~> (run[r].op = "until" /\ run[r].status # "running")

\* C7 as stated: stepsUntil terminates; it returns at most StepLimit
\* successive steps, all but the last below the target and the last at or
\* past it (none when start is at or past the target), or it fails, and
\* then with the step-limit error and exactly when more than StepLimit
\* steps are needed.
C7_OnlyStepLimitFailure ==
    \A r \in runs :
        run[r].op = "until" =>
            /\ StepsUntilOutcome(r)
            /\ run[r].status = "failed" => run[r].error = "StepLimit"

\* C7 as amended: stepsUntil terminates; it returns such a list, or fails
\* with the step-limit error, or fails with the error of the hasher when a
\* hashTimestamp call fails; it fails with the step-limit error exactly
\* when more than StepLimit steps are needed and no hash call failed first.
C7_StepsUntil ==
    /\ [](\A r \in runs :
            run[r].op = "until" =>
                /\ StepsUntilOutcome(r)
                /\ run[r].status = "failed" =>
                      run[r].error \in HashErrors \cup {"StepLimit"})
    /\ StepsUntilTerminates

\* calculateStepsUntil has returned exactly StepLimit steps
C7_Witness ==
    /\ run[1].op = "until" /\ run[1].status = "returned"
    /\ Len(run[1].retSteps) = StepLimit
    /\ run[1].retSteps[StepLimit].timestamp >= run[1].target

\* C8: stepsForward returns exactly count steps when no hash call fails,
\* the first nextStep(start), each later one nextStep of the one before,
\* with indices start.index + 1 .. start.index + count; when a hash call
\* fails it fails with that error, returns no list and makes no further
\* hash call.
C8_StepsForward ==
    \A r \in runs :
        run[r].op = "forward" =>
            /\ run[r].calls <= run[r].count
            /\ run[r].status = "returned" =>
                 /\ run[r].error = "none"
                 /\ Len(run[r].retSteps) = run[r].count
                 /\ run[r].calls = run[r].count
                 /\ \A i \in 1 .. Len(run[r].retSteps) :
                       /\ run[r].retSteps[i] =
                             Walk(run[r].start, run[r].config, i)
                       /\ run[r].retSteps[i].index = run[r].start.index + i
            /\ run[r].status = "failed" =>
                 /\ run[r].error \in HashErrors
                 /\ run[r].retSteps = <<>>
                 /\ run[r].calls = Len(run[r].steps) + 1

\* calculateStepsForward has returned MaxCount steps
C8_Witness ==
    /\ run[1].op = "forward" /\ run[1].status = "returned"
    /\ run[1].count = MaxCount /\ Len(run[1].retSteps) = MaxCount
    /\ run[1].retSteps[MaxCount].timestamp > run[1].start.timestamp

ForwardTimestamps(r, strictly) ==
    \A i \in 1 .. Len(run[r].retSteps) :
        LET before == IF i = 1 THEN run[r].start.timestamp
                      ELSE run[r].retSteps[i - 1].timestamp
        IN  IF strictly THEN run[r].retSteps[i].timestamp > before
            ELSE /\ run[r].retSteps[i].timestamp >= before
                 /\ (run[r].retSteps[i].timestamp > before) =
                       (run[r].retSteps[i].interval > 0)

Removed == Keys(cache) \ Keys(cache')

\* what C10 says of every set(step) apart from when it evicts
SetEffect(step) ==
    /\ Get(cache', step.index) = step
    /\ Cardinality(Removed) <= 1
    /\ step.index \notin Removed
    /\ \A k \in Removed :
          \A i \in DOMAIN cache :
             cache[EntryOf(cache, k)].order <= cache[i].order
    /\ \A i \in DOMAIN cache :
          cache[i].key \notin Removed \cup {step.index} =>
             Get(cache', cache[i].key) = cache[i].entry.step

GreatestCheckpointAtOrBefore(cps, targetIndex) ==
    LET below == {s \in cps : s.index <= targetIndex}
    IN  IF below = {} THEN NoStep
        ELSE CHOOSE s \in below : \A o \in below : o.index <= s.index

\* C11: getNearestCheckpoint(targetIndex) returns the recorded checkpoint
\* with the greatest index <= targetIndex, and absent only when no checkpoint
\* with index <= targetIndex is recorded; every set(step) whose step.index is
\* a multiple of 1000 records step as a checkpoint.
C11_NearestCheckpoint ==
    /\ lastOp.name = "getNearestCheckpoint" =>
          lastOp.ret = GreatestCheckpointAtOrBefore(checkpoints, lastOp.index)
    /\ (lastOp.name = "set" /\ lastOp.index % 1000 = 0) =>
          lastOp.step \in checkpoints

ReadNames == {"get", "getByTimestamp", "getNearestCheckpoint", "getStats"}

\* C12: get, getByTimestamp, getNearestCheckpoint and getStats leave the
\* entries, their order and the checkpoints unchanged, and the entry a set
\* evicts is the one whose index entered the cache earliest, whatever reads
\* came before it.
C12_ReadsKeepEvictionOrder ==
    [][/\ lastOp'.name \in ReadNames =>
             /\ cache' = cache
             /\ checkpoints' = checkpoints
             /\ maxSize' = maxSize
       /\ lastOp'.name = "set" =>
             \A k \in Removed :
                \A i \in DOMAIN cache :
                   cache[EntryOf(cache, k)].order <= cache[i].order]_vars

\* a get has read the oldest entry of a full cache of two entries, which is
\* still the first in eviction order
C12_Witness ==
    /\ lastOp.name = "get"
    /\ lastOp.ret # NoStep
    /\ maxSize = 2 /\ Len(cache) = 2
    /\ cache[1].key = lastOp.index
    /\ cache[1].order < cache[2].order

\* C13: a step read from the shared cache, by get(k) or by walking forward
\* from getNearestCheckpoint(k), equals step k of the chain from the origin
\* for every config in use, and every calculateStepsForward result is the
\* chain of its start step and config whatever the cache holds.
C13_CacheAgreesWithChain ==
    /\ \A cfg \in configs :
          /\ (/\ lastOp.name = "get" /\ lastOp.ret # NoStep
              /\ Walk(Origin, cfg, lastOp.index) # NoStep) =>
                 lastOp.ret = Walk(Origin, cfg, lastOp.index)
          /\ (/\ lastOp.name = "getNearestCheckpoint" /\ lastOp.ret # NoStep
              /\ Walk(Origin, cfg, lastOp.index) # NoStep) =>
                 Walk(lastOp.ret, cfg, lastOp.index - lastOp.ret.index) =
                    Walk(Origin, cfg, lastOp.index)
    /\ \A r \in runs :
          (run[r].op = "forward" /\ run[r].status = "returned") =>
             \A i \in DOMAIN run[r].retSteps :
                run[r].retSteps[i] = Walk(run[r].start, run[r].config, i)

\* C14: calculateSimilarity(user, candidate, maxInterval) is a number in
\* [0, 1], never NaN, for every pair of interval sequences, of equal or of
\* different lengths, and every positive maxInterval.
C14_SimilarityInRange ==
    (match.op = "calculateSimilarity" /\ match.status = "returned") =>
        /\ match.similarityScore # NaN
        /\ 0 <= match.similarityScore
        /\ match.similarityScore <= Scale

\* C15: calculateSimilarity(s, s) = 1 for every non-empty sequence s of
\* non-negative intervals, constant sequences and sequences of length 1
\* included.
C15_IdenticalScoreOne ==
    (/\ match.op = "calculateSimilarity" /\ match.status = "returned"
     /\ match.userIntervals # <<>>
     /\ match.userIntervals = match.quantumIntervals) =>
        match.similarityScore = Scale

\* the window length findBestAlignment searches with
WindowLength == IF match.windowSize # 0 THEN match.windowSize
                ELSE Len(match.userIntervals)

\* the score of the window at offset o
WindowScore(o) ==
    calculateSimilarity(match.userIntervals,
                        Slice(extractIntervals(match.quantumSteps),
                              o, o + WindowLength),
                        MAX_INTERVAL_MS)

Greater(a, b) == a # NaN /\ b # NaN /\ a > b

\* C16: when the candidate window holds at least windowLength steps,
\* findBestAlignment returns an offset in [0, |candidateSteps| - windowLength]
\* whose window no other offset of that range outscores, and every smaller
\* offset scores strictly less: of the offsets with the greatest score it is
\* the smallest.
C16_BestOffsetEarliest ==
    (/\ match.op = "findBestAlignment" /\ match.status = "returned"
     /\ Len(match.quantumSteps) >= WindowLength) =>
        LET last == Len(match.quantumSteps) - WindowLength
            o == match.alignment.offset
        IN  /\ o \in 0 .. last
            /\ \A p \in 0 .. last : ~Greater(WindowScore(p), WindowScore(o))
            /\ \A p \in 0 .. o - 1 : Greater(WindowScore(o), WindowScore(p))

\* findBestAlignment has returned the first of two offsets, neither of them
\* 0, whose windows have the same, greatest, score
C16_Witness ==
    /\ match.op = "findBestAlignment" /\ match.status = "returned"
    /\ Len(match.quantumSteps) >= WindowLength
    /\ match.alignment.offset > 0
    /\ \E p \in match.alignment.offset + 1 ..
                   Len(match.quantumSteps) - WindowLength :
          WindowScore(p) = WindowScore(match.alignment.offset)

\* C17: every SequenceAlignment findBestAlignment returns has offset >= 0,
\* length >= 1, offset + length <= |candidateSteps|, |alignedSteps| = length
\* and alignedSteps = candidateSteps[offset .. offset + length).
C17_AlignmentWellFormed ==
    (match.op = "findBestAlignment" /\ match.status = "returned") =>
        LET a == match.alignment
        IN  /\ a.offset >= 0
            /\ a.length >= 1
            /\ a.offset + a.length <= Len(match.quantumSteps)
            /\ Len(a.alignedSteps) = a.length
            /\ a.alignedSteps =
                  [i \in 1 .. a.length |-> match.quantumSteps[a.offset + i]]

\* C18: matchSequence fails with "No intervals to match", before any other
\* step, when the normalized user sequence is empty; it fails with "Search
\* range too small" when the candidate window it obtained holds fewer steps
\* than the user sequence has intervals; and in every result it returns
\* |quantumIntervals| = |matchedSteps| = |userIntervals|.
C18_MatchValidation ==
    match.op = "matchSequence" =>
        /\ Len(parseUserInput(match.type, match.values)) = 0 =>
              match.status = "failed" /\ match.error = NoIntervals
        /\ (/\ match.pc = "steps"
            /\ Len(match.quantumSteps) < Len(match.userIntervals)) =>
              match.status = "failed" /\ match.error = RangeTooSmall
        /\ match.status = "returned" =>
              /\ match.userIntervals =
                    parseUserInput(match.type, match.values)
              /\ Len(match.quantumIntervals) = Len(match.userIntervals)
              /\ Len(match.matchedSteps) = Len(match.userIntervals)

\* matchSequence has refused a window of at least one step that is shorter
\* than the user sequence
C18_Witness ==
    /\ match.op = "matchSequence"
    /\ match.status = "failed" /\ match.error = RangeTooSmall
    /\ Len(match.quantumSteps) >= 1
    /\ Len(match.userIntervals) > Len(match.quantumSteps)

\* C19: if the user interval sequence equals the intervals of the run of
\* candidate steps starting at position k of the candidate window,
\* matchSequence returns alignment.offset = k and similarityScore = 1.0.
C19_ExactRunFound ==
    (match.op = "matchSequence" /\ match.status = "returned") =>
        \A k \in 0 .. Len(match.quantumSteps) - Len(match.userIntervals) :
            Slice(extractIntervals(match.quantumSteps), k,
                  k + Len(match.userIntervals)) = match.userIntervals
            => /\ match.alignment.offset = k
               /\ match.similarityScore = Scale

\* C20: in every state the callers of a shared StepCache can observe, between
\* any two steps of the interleaved chain walks and cache calls, each entry
\* whose index is a multiple of 1000 has a checkpoint, the only one of that
\* index, holding the same step as the entry.
C20_EntriesMatchCheckpoints ==
    \A i \in DOMAIN cache :
        IsCheckpoint(cache[i].key) =>
            /\ cache[i].entry.step \in checkpoints
            /\ \A s \in checkpoints :
                  s.index = cache[i].key => s = cache[i].entry.step

\* a chain walk is suspended at an await, with a step already computed,
\* while the last call on the shared cache was the set of a step whose index
\* is a multiple of 1000 and whose entry is present
C20_Witness ==
    /\ run[1].op = "forward" /\ run[1].status = "running"
    /\ Len(run[1].steps) >= 1
    /\ lastOp.name = "set" /\ IsCheckpoint(lastOp.index)
    /\ Get(cache, lastOp.index) = lastOp.step
    /\ lastOp.step \in checkpoints

\* C21: calculateSimilarity(u, q, M) equals calculateSimilarity of the first
\* n = min(|u|, |q|) elements of u and of q, so nothing past the common
\* prefix affects it, and it is 0 when n = 0.
C21_CommonPrefixOnly ==
    (match.op = "calculateSimilarity" /\ match.status = "returned") =>
        LET n == Min(Len(match.userIntervals), Len(match.quantumIntervals))
        IN  /\ match.similarityScore =
                  calculateSimilarity(Slice(match.userIntervals, 0, n),
                                      Slice(match.quantumIntervals, 0, n),
                                      match.maxInterval)
            /\ n = 0 => match.similarityScore = 0


\* C22: getPreviousSteps(target, count) returns the steps of indices
\* target.index - 1 down to max(0, target.index - count), most recent first:
\* every returned index is below target.index, and the result is empty when
\* target.index = 0.
C22_PreviousSteps ==
    \A r \in runs :
        (run[r].op = "previous" /\ run[r].status = "returned") =>
            LET t == run[r].start.index
                lo == Max(0, t - run[r].count)
                ret == run[r].retSteps
            IN  /\ Len(ret) = t - lo
                /\ \A k \in 1 .. Len(ret) : ret[k].index = t - k
                /\ \A k \in 1 .. Len(ret) : ret[k].index < t
                /\ t = 0 => ret = <<>>


\* C23: in a StepCache constructed with a maxSize of at least 1, after any
\* sequence of set, get, getNearestCheckpoint and clear calls the number of
\* entries is at most maxSize.
C23_SizeWithinMaxSize ==
    maxSize >= 1 => Len(cache) <= maxSize

\* a set of an index not present has found the cache full, and the cache
\* holds exactly maxSize entries after it
C23_Witness ==
    /\ maxSize >= 1
    /\ lastOp.name = "set"
    /\ ~lastOp.wasPresent
    /\ lastOp.sizeBefore = maxSize
    /\ Len(cache) = maxSize

\* the indices for which a checkpoint is recorded
CheckpointIndices(cps) == {s.index : s \in cps}

\* C24: a set(step) with step.index a multiple of 1000 records the
\* checkpoint; no call other than clear removes the checkpoint of an index,
\* whether or not it evicts the entry of that index; after clear, get and
\* getNearestCheckpoint return absent for every index.
C24_CheckpointsOutliveEntries ==
    [][/\ (lastOp'.name = "set" /\ IsCheckpoint(lastOp'.step.index)) =>
             GetNearestCheckpoint(checkpoints', lastOp'.step.index) = lastOp'.step
       /\ lastOp'.name # "clear" =>
             /\ CheckpointIndices(checkpoints) \subseteq CheckpointIndices(checkpoints')
             /\ \A s \in checkpoints :
                   GetNearestCheckpoint(checkpoints', s.index) # NoStep
       /\ lastOp'.name = "clear" =>
             \A index \in CacheIndices \cup {999, 1999} :
                 /\ Get(cache', index) = NoStep
                 /\ GetNearestCheckpoint(checkpoints', index) = NoStep]_vars

\* getNearestCheckpoint has returned the checkpoint of an index whose entry
\* has been evicted, in a cache that holds more checkpoints than maxSize
C24_Witness ==
    /\ maxSize >= 1
    /\ lastOp.name = "getNearestCheckpoint"
    /\ IsCheckpoint(lastOp.index)
    /\ lastOp.ret # NoStep
    /\ lastOp.ret.index = lastOp.index
    /\ Get(cache, lastOp.index) = NoStep
    /\ Len(cache) = maxSize
    /\ Cardinality(checkpoints) > maxSize


\* the operations that walk the chain without an iteration ceiling
UnboundedWalks == {"nearest", "range", "upcoming"}

\* the walk of caller r is at a step that the chain never leaves: the digest
\* of its timestamp gives interval 0, so its successor has the same timestamp
AtFixedPoint(r) ==
    /\ IsHashed(run[r].current)
    /\ hashToDuration(digestOf[run[r].current.timestamp],
                      run[r].config.maxInterval) = 0

\* the walk of caller r has been followed for MaxWalk iterations
WalkCut(r) ==
    /\ run[r].op \in UnboundedWalks /\ run[r].status = "running"
    /\ \/ run[r].pc = "find" /\ run[r].current.index >= MaxWalk
       \/ run[r].op = "upcoming" /\ run[r].pc = "loop"
             /\ run[r].current.index >= MaxWalk
       \/ run[r].op = "range" /\ run[r].pc = "loop"
             /\ Len(run[r].steps) >= MaxWalk

\* following a walk for MaxWalk iterations leaves out no walk that advances:
\* the walks not followed further are at a step the chain never leaves
WalkCutOnlyAtFixedPoint ==
    \A r \in runs : WalkCut(r) => AtFixedPoint(r)

\* the loop of the walk of caller r has tested its condition true at current
\* and awaits the next step
InLoop(r) ==
    /\ run[r].op \in UnboundedWalks /\ run[r].status = "running"
    /\ run[r].pc \in {"find", "loop"}

\* C25: findStepNearTimestamp(target), calculateStepsInRange(start, end) and
\* getNextStep terminate for every target and every digest: a walk never
\* stays at a step short of its target that the chain does not leave (a step
\* whose digest gives interval 0), and a walk that is running eventually
\* returns (or fails with the error of the hasher).
C25_WalksTerminate ==
    /\ [](\A r \in runs : InLoop(r) => ~AtFixedPoint(r))
    /\ \A r \in {1, 2} :
          (run[r].op \in UnboundedWalks /\ run[r].status = "running")
              ~> (run[r].status \in {"returned", "failed"})

====
